---- MODULE Spec2Model ----
(***************************************************************************)
(* Notification store, event producers and preference gate of the          *)
(* SocialConnect backend (src/notifications, src/posts, src/users).        *)
(***************************************************************************)
EXTENDS Integers, Sequences, FiniteSets, TLC

(***************************************************************************)
(* Bounds of the model.                                                    *)
(***************************************************************************)
MaxNotifications == 2      \* rows ever inserted into the notifications table
MaxClock == 3              \* readings of timezone.now() in one behaviour
MaxComments == 1           \* rows ever inserted into the comments table
MaxMentions == 3           \* @names in one comment body
MaxDisabled == 1           \* delivery flags switched off at a time
MaxInbound == 2            \* frames a client sends on one connection

(***************************************************************************)
(* Fixed data: the users table and the choices of the models.              *)
(***************************************************************************)
Users == {"alice", "bob", "carol", "dave"}     \* rows of the users table
Clients == {"alice", "bob"}    \* the users whose requests reach the notification endpoints
NoUser == "none"           \* sender = None (null=True, blank=True)
NoTime == 0                \* read_at = None; clock readings start at 1
NoParam == "absent"        \* a query parameter that was not given
NoId == 0                  \* a request that addresses no notification id

ROLE == [u \in Users |-> IF u = "bob" THEN "admin" ELSE "user"]

is_admin(u) == ROLE[u] = "admin"

\* User.is_active; an inactive user cannot authenticate
ACTIVE == [u \in Users |-> u # "dave"]
Actors == {u \in Users : ACTIVE[u]}

\* the posts table (all rows is_active) and Post.author
Posts == {"p1"}
AUTHOR == [p \in Posts |-> "alice"]

\* names that follow an @ in a comment body; "ghost" is no username
MentionNames == Users \cup {"ghost"}

\* the 15 delivery flags of NotificationPreference
PreferenceFields ==
    {"email_follows", "email_likes", "email_comments", "email_mentions", "email_system",
     "push_follows", "push_likes", "push_comments", "push_mentions", "push_system",
     "in_app_follows", "in_app_likes", "in_app_comments", "in_app_mentions",
     "in_app_system"}

NOTIFICATION_TYPES == {"follow", "like", "comment", "mention", "system"}

\* kinds handed to create_notification by a direct caller: declared choices
\* and one value outside them
KindInputs == {"like", "bogus"}
SenderInputs == {"bob", NoUser}
IdInputs == 1..MaxNotifications
IsReadParams == {NoParam, "true", "false"}
TypeParams == {NoParam, "like"}
IsArchivedParams == {NoParam, "true"}

\* quiet_hours_start / quiet_hours_end = None (null=True, blank=True)
NoTimeOfDay == -1
\* times of day, in whole hours after midnight
TimeInputs == {0, 3, 6, 12, 22, 23}
\* the defaults of the three quiet-hours columns
QuietDefault ==
    [quiet_hours_enabled |-> FALSE, quiet_hours_start |-> NoTimeOfDay,
     quiet_hours_end |-> NoTimeOfDay]

\* websocket connections the server can hold, by channel name
Channels == {"c1", "c2"}
\* scope["user"] of a handshake without credentials: AnonymousUser
Anonymous == "anonymous"
NoConnection == [state |-> "none", user |-> NoUser]

\* the excerpt length of the event producers and the length limits of the
\* content validators
ExcerptLength == 50
CommentMaxLength == 200
PostMaxLength == 280

VARIABLES
    notifications,   \* the notifications table: id -> row
    nextId,          \* the next auto-increment primary key
    clock,           \* the next value timezone.now() returns
    dispatched,      \* id -> calls of send_notification_to_user for that row
    markAll,         \* user -> <<>> or <<count>>: a mark-all-read past its count()
    last,            \* the outcome of the last request or call
    follows,         \* the follows table: <<follower, following>>
    likes,           \* the likes table: <<user, post>>
    comments,        \* post -> number of rows of the comments table
    like_count,      \* post -> Post.like_count
    comment_count,   \* post -> Post.comment_count
    prefs,           \* user -> the delivery flags of the NotificationPreference row
    quiet,           \* user -> the quiet-hours columns of the same row
    post_content,    \* post -> Post.content
    conn,            \* channel -> the websocket connection and its consumer
    groups,          \* user -> the channels of the channel-layer group user_<id>
    frames,          \* channel -> the frames sent down the websocket, in order
    inbox,           \* channel -> the channel-layer messages not yet handled
    errors,          \* channel -> the exceptions that left a handler of the consumer
    inbound          \* channel -> the number of frames received from the client

sockets == <<conn, groups, frames, errors, inbound>>

others == <<follows, likes, comments, like_count, comment_count, prefs, quiet,
            post_content, sockets, inbox>>

vars == <<notifications, nextId, clock, dispatched, markAll, last, others>>

Ids == DOMAIN notifications

(***************************************************************************)
(* Model rows and queries.                                                 *)
(***************************************************************************)
\* the keyword arguments of one create: data is the JSON payload, a map
Creation(recipient, sender, kind, title, message, data) ==
    [recipient |-> recipient, sender |-> sender, kind |-> kind,
     title |-> title, message |-> message, data |-> data]

\* the row an INSERT of the keyword arguments c makes at time t
NotificationRow(c, t) ==
    [recipient |-> c.recipient, sender |-> c.sender, notification_type |-> c.kind,
     title |-> c.title, message |-> c.message, data |-> c.data,
     is_read |-> FALSE, is_archived |-> FALSE,
     created_at |-> t, read_at |-> NoTime]

\* Notification.objects.create: an INSERT; choices are not validated by save()
ObjectsCreate(c) ==
    (nextId :> NotificationRow(c, clock)) @@ notifications

ObjectsDelete(id) == [i \in Ids \ {id} |-> notifications[i]]

\* a lookup by primary key alone, without the recipient filter
OwnedByAnyone(id, user) == id \in Ids

\* get_object_or_404(Notification, id=notification_id, recipient=request.user)
OwnedBy(id, user) == id \in Ids /\ notifications[id].recipient = user

\* ordering = ['created_at']: oldest first
RECURSIVE OrderByCreatedAsc(_)
OrderByCreatedAsc(S) ==
    IF S = {} THEN <<>>
    ELSE LET oldest == CHOOSE i \in S :
                 \A j \in S : notifications[i].created_at <= notifications[j].created_at
         IN <<oldest>> \o OrderByCreatedAsc(S \ {oldest})

\* Meta.ordering = ['-created_at'] applied to a set of ids
RECURSIVE OrderByCreatedDesc(_)
OrderByCreatedDesc(S) ==
    IF S = {} THEN <<>>
    ELSE LET newest == CHOOSE i \in S :
                 \A j \in S : notifications[j].created_at <= notifications[i].created_at
         IN <<newest>> \o OrderByCreatedDesc(S \ {newest})

\* is_read.lower() == 'true'
ParamIsTrue(p) == p = "true"

\* Notification.get_notification_text: the sender is dereferenced for the
\* four event kinds, so the call raises when sender is None
NotificationTextRaises(sender, kind) ==
    sender = NoUser /\ kind \in {"follow", "like", "comment", "mention"}

\* Notification.get_notification_text, for a row it does not raise on
get_notification_text(row) ==
    IF row.notification_type = "follow"
    THEN row.sender \o " started following you"
    ELSE IF row.notification_type = "like"
    THEN row.sender \o " liked your post"
    ELSE IF row.notification_type = "comment"
    THEN row.sender \o " commented on your post"
    ELSE IF row.notification_type = "mention"
    THEN row.sender \o " mentioned you in a comment"
    ELSE row.message

\* every column of the row next to the two usernames and the text
NotificationFullSerializer(id, row) ==
    [id |-> id, recipient |-> row.recipient, recipient_username |-> row.recipient,
     sender |-> row.sender, sender_username |-> row.sender,
     notification_type |-> row.notification_type, title |-> row.title,
     message |-> row.message, notification_text |-> get_notification_text(row),
     data |-> row.data, is_read |-> row.is_read, is_archived |-> row.is_archived,
     created_at |-> row.created_at, read_at |-> row.read_at]

\* NotificationListSerializer(notification).data; the read-only field
\* sender_username (source sender.username) is left out when sender is None
NotificationListSerializer(id, row) ==
    LET fields ==
            [id |-> id, notification_type |-> row.notification_type,
             title |-> row.title, message |-> row.message,
             notification_text |-> get_notification_text(row),
             is_read |-> row.is_read, is_archived |-> row.is_archived,
             created_at |-> row.created_at]
    IN IF row.sender = NoUser THEN fields
       ELSE [sender_username |-> row.sender] @@ fields

\* a send that reaches one channel of the group only
GroupSendToOne(box, user, message) ==
    [c \in Channels |->
        IF groups[user] # {} /\ c = (CHOOSE d \in groups[user] : TRUE)
        THEN Append(box[c], message) ELSE box[c]]

\* a send that reaches the channels of every group
GroupSendToAll(box, user, message) ==
    [c \in Channels |->
        IF \E u \in Users : c \in groups[u]
        THEN Append(box[c], message) ELSE box[c]]

\* channel_layer.group_send(f"user_{user_id}", message): the message is put
\* on the queue of every channel that is in the group now
GroupSend(box, user, message) ==
    [c \in Channels |->
        IF c \in groups[user] THEN Append(box[c], message) ELSE box[c]]

\* send_notification_to_user when neither the serializer nor the layer raises
\* a dispatcher that sends nothing to a recipient who has switched quiet
\* hours on
send_notification_unless_quiet(box, id, row) ==
    IF quiet[row.recipient].quiet_hours_enabled THEN box
    ELSE GroupSend(box, row.recipient,
                   [type |-> "notification_message",
                    notification |-> NotificationListSerializer(id, row)])

send_notification_to_user(box, id, row) ==
    GroupSend(box, row.recipient,
              [type |-> "notification_message",
               notification |-> NotificationListSerializer(id, row)])

Outcome(op, user, id, status) ==
    [op |-> op, user |-> user, id |-> id, status |-> status,
     wrote |-> FALSE, count |-> 0, result |-> <<>>, params |-> <<>>]

TypeOK ==
    /\ nextId \in 1..(MaxNotifications + 1)
    /\ clock \in 1..(MaxClock + 1)
    /\ Ids \subseteq 1..MaxNotifications
    /\ DOMAIN dispatched = 1..(nextId - 1)

Init ==
    /\ notifications = <<>>
    /\ nextId = 1
    /\ clock = 1
    /\ dispatched = <<>>
    /\ markAll = [u \in Clients |-> <<>>]
    /\ last = Outcome("none", NoUser, NoId, "none")
    /\ follows = {}
    /\ likes = {}
    /\ comments = [p \in Posts |-> 0]
    /\ like_count = [p \in Posts |-> 0]
    /\ comment_count = [p \in Posts |-> 0]
    /\ prefs = [u \in Clients |-> [f \in PreferenceFields |-> TRUE]]
    /\ quiet = [u \in Clients |-> QuietDefault]
    /\ post_content = [p \in Posts |-> "first post"]
    /\ conn = [c \in Channels |-> NoConnection]
    /\ groups = [u \in Users |-> {}]
    /\ frames = [c \in Channels |-> <<>>]
    /\ inbox = [c \in Channels |-> <<>>]
    /\ errors = [c \in Channels |-> <<>>]
    /\ inbound = [c \in Channels |-> 0]

(***************************************************************************)
(* Notification.create_notification called directly.                       *)
(***************************************************************************)
\* send_notification_to_user: serialize, then group_send; either can raise
DispatchRaises(sender, kind, layerOk) ==
    NotificationTextRaises(sender, kind) \/ ~layerOk

\* called with title='Notice', message='Something happened' and no data
CreateNotification(recipient, sender, kind, layerOk) ==
    LET c == Creation(recipient, sender, kind, "Notice", "Something happened", <<>>)
    IN /\ nextId <= MaxNotifications
       /\ clock <= MaxClock
       /\ notifications' = ObjectsCreate(c)
       /\ nextId' = nextId + 1
       /\ clock' = clock + 1
       /\ dispatched' = dispatched @@ (nextId :> 1)
       /\ inbox' = IF DispatchRaises(sender, kind, layerOk) THEN inbox
                    ELSE send_notification_to_user(inbox, nextId,
                                                   NotificationRow(c, clock))
       /\ last' = [Outcome("create", recipient, nextId,
                           IF DispatchRaises(sender, kind, layerOk)
                           THEN "raised" ELSE "returned")
                   EXCEPT !.wrote = TRUE, !.params = <<layerOk>>]
       /\ UNCHANGED <<markAll, follows, likes, comments, like_count, comment_count,
                      prefs, quiet, post_content, sockets>>

(***************************************************************************)
(* NotificationTestView.post: objects.create, no call of the dispatcher.   *)
(***************************************************************************)
NotificationTest(user) ==
    /\ nextId <= MaxNotifications
    /\ clock <= MaxClock
    /\ notifications' =
          ObjectsCreate(Creation(user, user, "system", "Test Notification",
              "This is a test notification to verify the system is working.",
              <<>>))
    /\ nextId' = nextId + 1
    /\ clock' = clock + 1
    /\ dispatched' = dispatched @@ (nextId :> 0)
    /\ last' = [Outcome("test", user, nextId, "HTTP_201_CREATED")
                EXCEPT !.wrote = TRUE]
    /\ UNCHANGED <<markAll, others>>

(***************************************************************************)
(* NotificationMarkAsReadView.post and Notification.mark_as_read.          *)
(***************************************************************************)
\* mark_as_read without its "if not self.is_read" guard
mark_as_read_unguarded(row, t) ==
    [row EXCEPT !.is_read = TRUE, !.read_at = t]

mark_as_read(row, t) ==
    IF ~row.is_read
    THEN [row EXCEPT !.is_read = TRUE, !.read_at = t]
    ELSE row

MarkAsRead(user, id) ==
    IF ~OwnedBy(id, user)
    THEN /\ last' = Outcome("mark_read", user, id, "HTTP_404_NOT_FOUND")
         /\ UNCHANGED <<notifications, nextId, clock, dispatched, markAll, others>>
    ELSE LET row == notifications[id]
             new == mark_as_read(row, clock)
         IN /\ new # row => clock <= MaxClock
            /\ notifications' = [notifications EXCEPT ![id] = new]
            /\ clock' = IF new # row THEN clock + 1 ELSE clock
            /\ last' = [Outcome("mark_read", user, id, "HTTP_200_OK")
                        EXCEPT !.wrote = (new # row)]
            /\ UNCHANGED <<nextId, dispatched, markAll, others>>

(***************************************************************************)
(* NotificationMarkAllAsReadView.post: count(), then update(is_read=True). *)
(***************************************************************************)
\* Notification.objects.filter(recipient=request.user, is_read=False)
UnreadOf(user) ==
    {i \in Ids : notifications[i].recipient = user /\ ~notifications[i].is_read}

\* unread_notifications.update(is_read=True): one UPDATE of the is_read column
UpdateIsRead(S) ==
    [i \in Ids |-> IF i \in S
                   THEN [notifications[i] EXCEPT !.is_read = TRUE]
                   ELSE notifications[i]]

\* ids in ascending order, for the rows a bulk statement touched
RECURSIVE Ascending(_)
Ascending(S) ==
    IF S = {} THEN <<>>
    ELSE LET least == CHOOSE i \in S : \A j \in S : i <= j
         IN <<least>> \o Ascending(S \ {least})

\* count = unread_notifications.count()
MarkAllCount(user) ==
    /\ markAll[user] = <<>>
    /\ markAll' = [markAll EXCEPT ![user] = <<Cardinality(UnreadOf(user))>>]
    /\ UNCHANGED <<notifications, nextId, clock, dispatched, last, others>>

\* unread_notifications.update(is_read=True); the response reports count
MarkAllUpdate(user) ==
    /\ markAll[user] # <<>>
    /\ notifications' = UpdateIsRead(UnreadOf(user))
    /\ markAll' = [markAll EXCEPT ![user] = <<>>]
    /\ last' = [Outcome("mark_all_read", user, NoId, "HTTP_200_OK")
                EXCEPT !.count = markAll[user][1],
                       !.result = Ascending(UnreadOf(user)),
                       !.wrote = UnreadOf(user) # {}]
    /\ UNCHANGED <<nextId, clock, dispatched, others>>

\* the whole handler, run with no other request in between
MarkAllAsRead(user) ==
    /\ markAll[user] = <<>>
    /\ notifications' = UpdateIsRead(UnreadOf(user))
    /\ last' = [Outcome("mark_all_read", user, NoId, "HTTP_200_OK")
                EXCEPT !.count = Cardinality(UnreadOf(user)),
                       !.result = Ascending(UnreadOf(user)),
                       !.wrote = UnreadOf(user) # {}]
    /\ UNCHANGED <<nextId, clock, dispatched, markAll, others>>

(***************************************************************************)
(* NotificationArchiveView, NotificationUnarchiveView,                     *)
(* NotificationDeleteView.                                                 *)
(***************************************************************************)
\* an archive switch that also marks the notification read
SetArchivedReading(op, user, id, value) ==
    IF ~OwnedBy(id, user)
    THEN /\ last' = Outcome(op, user, id, "HTTP_404_NOT_FOUND")
         /\ UNCHANGED <<notifications, nextId, clock, dispatched, markAll, others>>
    ELSE /\ notifications' = [notifications EXCEPT ![id].is_archived = value,
                                                    ![id].is_read = TRUE]
         /\ last' = [Outcome(op, user, id, "HTTP_200_OK") EXCEPT !.wrote = TRUE]
         /\ UNCHANGED <<nextId, clock, dispatched, markAll, others>>

\* notification.is_archived = value; notification.save(update_fields=['is_archived'])
SetArchived(op, user, id, value) ==
    IF ~OwnedBy(id, user)
    THEN /\ last' = Outcome(op, user, id, "HTTP_404_NOT_FOUND")
         /\ UNCHANGED <<notifications, nextId, clock, dispatched, markAll, others>>
    ELSE /\ notifications' = [notifications EXCEPT ![id].is_archived = value]
         /\ last' = [Outcome(op, user, id, "HTTP_200_OK") EXCEPT !.wrote = TRUE]
         /\ UNCHANGED <<nextId, clock, dispatched, markAll, others>>

Archive(user, id) == SetArchived("archive", user, id, TRUE)

Unarchive(user, id) == SetArchived("unarchive", user, id, FALSE)

Delete(user, id) ==
    IF ~OwnedBy(id, user)
    THEN /\ last' = Outcome("delete", user, id, "HTTP_404_NOT_FOUND")
         /\ UNCHANGED <<notifications, nextId, clock, dispatched, markAll, others>>
    ELSE /\ notifications' = ObjectsDelete(id)
         /\ last' = [Outcome("delete", user, id, "HTTP_200_OK") EXCEPT !.wrote = TRUE]
         /\ UNCHANGED <<nextId, clock, dispatched, markAll, others>>

(***************************************************************************)
(* NotificationDetailView PUT/PATCH with NotificationUpdateSerializer:     *)
(* the given ones of is_read and is_archived are assigned, then save().    *)
(***************************************************************************)
UpdateFields == {"is_read", "is_archived"}

\* an update that assigns every column the request names
ApplyUpdateAnyColumn(row, patch) ==
    [f \in DOMAIN row |-> IF f \in DOMAIN patch THEN patch[f] ELSE row[f]]

\* serializer.save(): only the declared fields reach validated_data
ApplyUpdate(row, patch) ==
    [row EXCEPT
        !.is_read = IF "is_read" \in DOMAIN patch THEN patch["is_read"] ELSE @,
        !.is_archived = IF "is_archived" \in DOMAIN patch
                        THEN patch["is_archived"] ELSE @]

DetailUpdate(user, id, patch) ==
    IF ~OwnedBy(id, user)
    THEN /\ last' = Outcome("update", user, id, "HTTP_404_NOT_FOUND")
         /\ UNCHANGED <<notifications, nextId, clock, dispatched, markAll, others>>
    ELSE /\ notifications' =
                [notifications EXCEPT ![id] = ApplyUpdate(notifications[id], patch)]
         /\ last' = [Outcome("update", user, id, "HTTP_200_OK")
                     EXCEPT !.wrote = TRUE, !.params = <<patch>>]
         /\ UNCHANGED <<nextId, clock, dispatched, markAll, others>>

(***************************************************************************)
(* NotificationListView.get_queryset.                                      *)
(***************************************************************************)
ListQuery(user, isRead, type, isArchived) ==
    {i \in Ids :
        /\ notifications[i].recipient = user
        /\ isRead # NoParam => notifications[i].is_read = ParamIsTrue(isRead)
        /\ type # NoParam => notifications[i].notification_type = type
        /\ isArchived # NoParam =>
               notifications[i].is_archived = ParamIsTrue(isArchived)}

List(user, isRead, type, isArchived) ==
    /\ last' = [Outcome("list", user, NoId, "HTTP_200_OK") EXCEPT
                   !.result = OrderByCreatedDesc(ListQuery(user, isRead, type, isArchived)),
                   !.params = <<isRead, type, isArchived>>]
    /\ UNCHANGED <<notifications, nextId, clock, dispatched, markAll, others>>

(***************************************************************************)
(* AdminNotificationListView and AdminNotificationDeleteView.              *)
(***************************************************************************)
AdminListQuery(user) ==
    IF ~is_admin(user) THEN {} ELSE Ids

AdminList(user) ==
    /\ last' = [Outcome("admin_list", user, NoId, "HTTP_200_OK") EXCEPT
                   !.result = OrderByCreatedDesc(AdminListQuery(user))]
    /\ UNCHANGED <<notifications, nextId, clock, dispatched, markAll, others>>

AdminDelete(user, id) ==
    IF ~is_admin(user)
    THEN /\ last' = Outcome("admin_delete", user, id, "HTTP_403_FORBIDDEN")
         /\ UNCHANGED <<notifications, nextId, clock, dispatched, markAll, others>>
    ELSE IF id \notin Ids
    THEN /\ last' = Outcome("admin_delete", user, id, "HTTP_404_NOT_FOUND")
         /\ UNCHANGED <<notifications, nextId, clock, dispatched, markAll, others>>
    ELSE /\ notifications' = ObjectsDelete(id)
         /\ last' = [Outcome("admin_delete", user, id, "HTTP_200_OK")
                     EXCEPT !.wrote = TRUE]
         /\ UNCHANGED <<nextId, clock, dispatched, markAll, others>>

Patches == UNION {[F -> BOOLEAN] : F \in SUBSET UpdateFields}

(***************************************************************************)
(* Event producers: the post_save receivers of notifications/signals.py,   *)
(* run inside the save() of the request that made the domain write.        *)
(***************************************************************************)
\* the whole text, however long
ExcerptWhole(content) == content

\* instance.content[:50] + '...' if len(instance.content) > 50 else instance.content
Excerpt(content) ==
    IF Len(content) > ExcerptLength
    THEN SubSeq(content, 1, ExcerptLength) \o "..."
    ELSE content

\* create_follow_notification
FollowCreations(follower, following) ==
    IF follower # following
    THEN <<Creation(following, follower, "follow", "New Follower",
                    follower \o " started following you",
                    [follower_id |-> follower, follower_username |-> follower])>>
    ELSE <<>>

\* create_like_notification without the test that skips own likes
LikeCreationsOfAnyone(user, post) ==
    <<Creation(AUTHOR[post], user, "like", "New Like",
               user \o " liked your post",
               [post_id |-> post, post_content |-> Excerpt(post_content[post])])>>

\* create_like_notification asking the author's in-app flag for likes first
LikeCreationsIfEnabled(user, post) ==
    IF user # AUTHOR[post] /\ prefs[AUTHOR[post]]["in_app_likes"]
    THEN LikeCreationsOfAnyone(user, post)
    ELSE <<>>

\* create_like_notification
LikeCreations(user, post) ==
    IF user # AUTHOR[post]
    THEN <<Creation(AUTHOR[post], user, "like", "New Like",
                    user \o " liked your post",
                    [post_id |-> post,
                     post_content |-> Excerpt(post_content[post])])>>
    ELSE <<>>

\* create_comment_notification; comment is the id of the new comments row
CommentCreations(author, post, comment, content) ==
    IF author # AUTHOR[post]
    THEN <<Creation(AUTHOR[post], author, "comment", "New Comment",
                    author \o " commented on your post",
                    [post_id |-> post, comment_id |-> comment,
                     comment_content |-> Excerpt(content),
                     post_content |-> Excerpt(post_content[post])])>>
    ELSE <<>>

\* the characters \w matches among those the comment bodies are written in
WordChars ==
    {"a", "b", "c", "d", "e", "f", "g", "h", "i", "j", "k", "l", "m", "n",
     "o", "p", "q", "r", "s", "t", "u", "v", "w", "x", "y", "z",
     "0", "1", "2", "3", "4", "5", "6", "7", "8", "9", "_"}

\* the indices where a match of @(\w+) starts: an @ with a word character
\* next; @ is no word character, so no match starts inside another
MatchStarts(content) ==
    {i \in 1..(Len(content) - 1) :
        /\ SubSeq(content, i, i) = "@"
        /\ SubSeq(content, i + 1, i + 1) \in WordChars}

\* the last index of the run of word characters that starts at index i:
\* \w+ takes as many as there are
WordEnd(content, i) ==
    CHOOSE j \in i..Len(content) :
        /\ \A k \in i..j : SubSeq(content, k, k) \in WordChars
        /\ j = Len(content) \/ SubSeq(content, j + 1, j + 1) \notin WordChars

\* the groups of the matches that start at the indices in starts, from left
\* to right
RECURSIVE FindAllFrom(_, _)
FindAllFrom(content, starts) ==
    IF starts = {} THEN <<>>
    ELSE LET i == CHOOSE n \in starts : \A o \in starts : n <= o
         IN <<SubSeq(content, i + 1, WordEnd(content, i + 1))>>
                \o FindAllFrom(content, starts \ {i})

\* re.findall(r'@(\w+)', content)
re_findall(content) == FindAllFrom(content, MatchStarts(content))

\* what re.findall can return for a body: nobody, each kind of name alone,
\* a name twice, and mixtures of names that resolve and names that do not
MentionLists ==
    {<<>>, <<"alice">>, <<"bob">>, <<"carol">>, <<"dave">>, <<"ghost">>,
     <<"alice", "alice">>, <<"bob", "bob">>, <<"carol", "carol">>,
     <<"bob", "carol">>, <<"alice", "carol">>, <<"carol", "ghost">>,
     <<"dave", "bob">>,
     <<"bob", "carol", "ghost">>, <<"carol", "bob", "carol">>,
     <<"carol", "ghost", "carol", "bob">>}

FailInputs == 1..(MaxMentions + 2)
MentionInputs == {m \in MentionLists : Len(m) <= MaxMentions}

\* a comment body that names the elements of mentions, in order
RECURSIVE Render(_)
Render(mentions) ==
    IF mentions = <<>> THEN "well said"
    ELSE IF Len(mentions) = 1 THEN "hello @" \o Head(mentions)
    ELSE "hello @" \o Head(mentions) \o " and" \o
             SubSeq(Render(Tail(mentions)), 6, Len(Render(Tail(mentions))))

CommentInputs == {Render(m) : m \in MentionInputs}

\* a text of n characters, none of them @
RECURSIVE Filler(_)
Filler(n) ==
    IF n = 0 THEN ""
    ELSE IF n < 10 THEN "x" \o Filler(n - 1)
    ELSE "lorem ipsu" \o Filler(n - 10)

\* comment bodies on both sides of the excerpt length and past the
\* validator; one of them names a user past the excerpt length
LongInputs ==
    {Filler(40), Filler(50), Filler(51), Filler(120),
     Filler(60) \o " @bob", Filler(201)}

\* bodies that name nobody, one active user, or the commenter
PlainInputs == {Render(<<>>), Render(<<"carol">>), Render(<<"bob">>)}

\* re.findall for each body a request of the model carries
Mentions == [content \in CommentInputs \cup LongInputs |-> re_findall(content)]

\* User.objects.get(username=username, is_active=True) finds a row
Resolves(name) == name \in Users /\ ACTIVE[name]

\* the loop of create_mention_notifications without the test that skips
\* a mention of the post's author
RECURSIVE MentionCreationsOfPostAuthor(_, _, _, _, _)
MentionCreationsOfPostAuthor(mentions, author, post, comment, content) ==
    IF mentions = <<>> THEN <<>>
    ELSE LET name == Head(mentions)
             rest == MentionCreationsOfPostAuthor(Tail(mentions), author, post,
                                                  comment, content)
         IN IF Resolves(name) /\ name # author
            THEN <<Creation(name, author, "mention", "Mentioned in Comment",
                            author \o " mentioned you in a comment",
                            [post_id |-> post, comment_id |-> comment,
                             comment_content |-> Excerpt(content)])>> \o rest
            ELSE rest

\* create_mention_notifications: one pass over re.findall's list, in order
RECURSIVE MentionCreations(_, _, _, _, _)
MentionCreations(mentions, author, post, comment, content) ==
    IF mentions = <<>> THEN <<>>
    ELSE LET name == Head(mentions)
             rest == MentionCreations(Tail(mentions), author, post, comment, content)
         IN IF Resolves(name) /\ name # author /\ name # AUTHOR[post]
            THEN <<Creation(name, author, "mention", "Mentioned in Comment",
                            author \o " mentioned you in a comment",
                            [post_id |-> post, comment_id |-> comment,
                             comment_content |-> Excerpt(content)])>> \o rest
            ELSE rest

\* the create_notification calls of one request up to the first one whose
\* dispatch raises: that one has inserted its row, the later ones never run
Performed(cs, failAt) ==
    IF failAt <= Len(cs) THEN SubSeq(cs, 1, failAt) ELSE cs

Raised(cs, failAt) == failAt <= Len(cs)

RoomFor(n) ==
    /\ nextId + n - 1 <= MaxNotifications
    /\ clock + n - 1 <= MaxClock

\* send_notification_to_user for the k-th to the sent-th row of cs
RECURSIVE SendAll(_, _, _, _)
SendAll(box, cs, k, sent) ==
    IF k > sent THEN box
    ELSE SendAll(send_notification_to_user(box, nextId + k - 1,
                                            NotificationRow(cs[k], clock + k - 1)),
                 cs, k + 1, sent)

\* create_notification once for each element of cs; when raised, the
\* dispatch of the last one raises
CreateAll(cs, raised) ==
    /\ RoomFor(Len(cs))
    /\ notifications' =
          [i \in Ids \cup (nextId..(nextId + Len(cs) - 1)) |->
              IF i \in Ids THEN notifications[i]
              ELSE NotificationRow(cs[i - nextId + 1], clock + (i - nextId))]
    /\ nextId' = nextId + Len(cs)
    /\ clock' = clock + Len(cs)
    /\ dispatched' =
          [i \in 1..(nextId + Len(cs) - 1) |->
              IF i < nextId THEN dispatched[i] ELSE 1]
    /\ inbox' = SendAll(inbox, cs, 1, IF raised THEN Len(cs) - 1 ELSE Len(cs))

LikesOf(table, post) == {l \in table : l[2] = post}

\* FollowUserView.post
FollowUser(user, target, failAt) ==
    IF ~Resolves(target)
    THEN /\ last' = Outcome("follow", user, NoId, "HTTP_404_NOT_FOUND")
         /\ UNCHANGED <<notifications, nextId, clock, dispatched, markAll, others>>
    ELSE IF target = user \/ <<user, target>> \in follows
    THEN /\ last' = Outcome("follow", user, NoId, "HTTP_400_BAD_REQUEST")
         /\ UNCHANGED <<notifications, nextId, clock, dispatched, markAll, others>>
    ELSE LET cs == FollowCreations(user, target)
         IN /\ failAt <= Len(cs) + 1
            /\ follows' = follows \cup {<<user, target>>}
            /\ CreateAll(Performed(cs, failAt), Raised(cs, failAt))
            /\ last' = [Outcome("follow", user, NoId,
                                IF Raised(cs, failAt) THEN "raised"
                                ELSE "HTTP_201_CREATED")
                        EXCEPT !.wrote = TRUE,
                               !.count = Len(Performed(cs, failAt)),
                               !.params = <<target>>]
            /\ UNCHANGED <<markAll, likes, comments, like_count, comment_count, prefs,
                           quiet, post_content, sockets>>

\* PostLikeView.post, Like.save and Post.update_counts
PostLike(user, post, failAt) ==
    IF <<user, post>> \in likes
    THEN /\ last' = Outcome("like", user, NoId, "HTTP_400_BAD_REQUEST")
         /\ UNCHANGED <<notifications, nextId, clock, dispatched, markAll, others>>
    ELSE LET cs == LikeCreations(user, post)
             raised == Raised(cs, failAt)
         IN /\ failAt <= Len(cs) + 1
            /\ likes' = likes \cup {<<user, post>>}
            /\ CreateAll(Performed(cs, failAt), raised)
            /\ like_count' = IF raised THEN like_count
                  ELSE [like_count EXCEPT ![post] = Cardinality(LikesOf(likes', post))]
            /\ comment_count' = IF raised THEN comment_count
                  ELSE [comment_count EXCEPT ![post] = comments[post]]
            /\ last' = [Outcome("like", user, NoId,
                                IF raised THEN "raised" ELSE "HTTP_201_CREATED")
                        EXCEPT !.wrote = TRUE,
                               !.count = Len(Performed(cs, failAt)),
                               !.params = <<post>>]
            /\ UNCHANGED <<markAll, follows, comments, prefs, quiet, post_content, sockets>>

\* PostUnlikeView.delete: like is a QuerySet, and QuerySet.delete() removes
\* the rows and sends post_delete without calling Like.delete, the only
\* place that runs update_counts on removal; the post_delete receiver prints
PostUnlike(user, post) ==
    IF <<user, post>> \notin likes
    THEN /\ last' = Outcome("unlike", user, NoId, "HTTP_400_BAD_REQUEST")
         /\ UNCHANGED <<notifications, nextId, clock, dispatched, markAll, others>>
    ELSE /\ likes' = likes \ {<<user, post>>}
         /\ last' = [Outcome("unlike", user, NoId, "HTTP_200_OK")
                     EXCEPT !.wrote = TRUE, !.params = <<post>>]
         /\ UNCHANGED <<notifications, nextId, clock, dispatched, markAll, follows,
                        comments, like_count, comment_count, prefs, quiet,
                        post_content, sockets, inbox>>

\* CommentListView.perform_create with CommentCreateSerializer, Comment.save
\* and Post.update_counts; content is the body as validated: not blank, no
\* white space at either end
CommentCreate(user, post, content, failAt) ==
    IF Len(content) > CommentMaxLength
    THEN /\ last' = [Outcome("comment", user, NoId, "HTTP_400_BAD_REQUEST")
                     EXCEPT !.params = <<post, content>>]
         /\ UNCHANGED <<notifications, nextId, clock, dispatched, markAll, others>>
    ELSE
    LET comment == comments[post] + 1
        cs == CommentCreations(user, post, comment, content)
                \o MentionCreations(Mentions[content], user, post, comment, content)
        raised == Raised(cs, failAt)
    IN /\ comments[post] < MaxComments
       /\ failAt <= Len(cs) + 1
       /\ comments' = [comments EXCEPT ![post] = comment]
       /\ CreateAll(Performed(cs, failAt), raised)
       /\ like_count' = IF raised THEN like_count
             ELSE [like_count EXCEPT ![post] = Cardinality(LikesOf(likes, post))]
       /\ comment_count' = IF raised THEN comment_count
             ELSE [comment_count EXCEPT ![post] = comments'[post]]
       /\ last' = [Outcome("comment", user, NoId,
                           IF raised THEN "raised" ELSE "HTTP_201_CREATED")
                   EXCEPT !.wrote = TRUE,
                          !.count = Len(Performed(cs, failAt)),
                          !.params = <<post, content>>]
       /\ UNCHANGED <<markAll, follows, likes, prefs, quiet, post_content, sockets>>

\* PUT/PATCH posts/<pk>/ with PostUpdateSerializer, by the author or an admin
PostUpdate(user, post, content) ==
    IF user # AUTHOR[post] /\ ~is_admin(user)
    THEN /\ last' = Outcome("post_update", user, NoId, "HTTP_403_FORBIDDEN")
         /\ UNCHANGED <<notifications, nextId, clock, dispatched, markAll, others>>
    ELSE IF Len(content) > PostMaxLength
    THEN /\ last' = Outcome("post_update", user, NoId, "HTTP_400_BAD_REQUEST")
         /\ UNCHANGED <<notifications, nextId, clock, dispatched, markAll, others>>
    ELSE /\ post_content' = [post_content EXCEPT ![post] = content]
         /\ last' = [Outcome("post_update", user, NoId, "HTTP_200_OK")
                     EXCEPT !.wrote = TRUE]
         /\ UNCHANGED <<notifications, nextId, clock, dispatched, markAll,
                        follows, likes, comments, like_count, comment_count,
                        prefs, quiet, sockets, inbox>>

(***************************************************************************)
(* Preference gate: NotificationPreferenceView and                         *)
(* NotificationPreference.should_send_notification.                        *)
(***************************************************************************)
\* getattr(self, name, True)
GetAttr(row, name, default) ==
    IF name \in DOMAIN row THEN row[name] ELSE default

should_send_notification(row, notification_type, method) ==
    IF method = "email"
    THEN GetAttr(row, "email_" \o notification_type, TRUE)
    ELSE IF method = "push"
    THEN GetAttr(row, "push_" \o notification_type, TRUE)
    ELSE IF method = "in_app"
    THEN GetAttr(row, "in_app_" \o notification_type, TRUE)
    ELSE TRUE

\* PATCH preferences/ with one flag
PreferenceUpdate(user, field, value) ==
    /\ value \/ Cardinality({<<u, f>> \in Clients \X PreferenceFields : ~prefs[u][f]})
                   < MaxDisabled
    /\ prefs' = [prefs EXCEPT ![user][field] = value]
    /\ last' = [Outcome("preferences", user, NoId, "HTTP_200_OK")
                EXCEPT !.wrote = TRUE]
    /\ UNCHANGED <<notifications, nextId, clock, dispatched, markAll,
                   follows, likes, comments, like_count, comment_count,
                   quiet, post_content, sockets, inbox>>

MethodInputs == {"email", "push", "in_app", "sms"}
TypeInputs == NOTIFICATION_TYPES \cup {"bogus"}

\* preferences.should_send_notification(notification_type, method)
ShouldSend(user, notification_type, method) ==
    /\ last' = [Outcome("should_send", user, NoId,
                        IF should_send_notification(prefs[user], notification_type, method)
                        THEN "True" ELSE "False")
                EXCEPT !.params = <<notification_type, method>>]
    /\ UNCHANGED <<notifications, nextId, clock, dispatched, markAll, others>>

(***************************************************************************)
(* Quiet hours: the three columns written through                          *)
(* NotificationPreferenceView and NotificationPreference.is_quiet_hours.   *)
(***************************************************************************)
\* a window that is tested as if it never crossed midnight
is_quiet_hours_no_wrap(row, current_time) ==
    /\ row.quiet_hours_enabled
    /\ row.quiet_hours_start # NoTimeOfDay
    /\ row.quiet_hours_end # NoTimeOfDay
    /\ row.quiet_hours_start <= current_time
    /\ current_time <= row.quiet_hours_end

\* is_quiet_hours with current_time = timezone.now().time(); a time object
\* is truthy whatever its value, None is not
is_quiet_hours(row, current_time) ==
    IF ~row.quiet_hours_enabled THEN FALSE
    ELSE IF row.quiet_hours_start # NoTimeOfDay /\ row.quiet_hours_end # NoTimeOfDay
    THEN IF row.quiet_hours_start <= row.quiet_hours_end
         THEN row.quiet_hours_start <= current_time
                  /\ current_time <= row.quiet_hours_end
         ELSE current_time >= row.quiet_hours_start
                  \/ current_time <= row.quiet_hours_end
    ELSE FALSE

QuietFields == {"quiet_hours_enabled", "quiet_hours_start", "quiet_hours_end"}

\* the values a PATCH can give to one quiet-hours column
QuietValues(field) ==
    IF field = "quiet_hours_enabled" THEN BOOLEAN
    ELSE TimeInputs \cup {NoTimeOfDay}

\* PATCH preferences/ with one of the quiet-hours columns
QuietUpdate(user, field, value) ==
    /\ quiet' = [quiet EXCEPT ![user][field] = value]
    /\ last' = [Outcome("preferences", user, NoId, "HTTP_200_OK")
                EXCEPT !.wrote = TRUE]
    /\ UNCHANGED <<notifications, nextId, clock, dispatched, markAll,
                   follows, likes, comments, like_count, comment_count,
                   prefs, post_content, sockets, inbox>>

\* preferences.is_quiet_hours() when the clock of the server reads now
IsQuietHours(user, now) ==
    /\ last' = [Outcome("is_quiet_hours", user, NoId,
                        IF is_quiet_hours(quiet[user], now)
                        THEN "True" ELSE "False")
                EXCEPT !.params = <<now>>]
    /\ UNCHANGED <<notifications, nextId, clock, dispatched, markAll, others>>

(***************************************************************************)
(* NotificationConsumer: one consumer per websocket connection. Its        *)
(* handlers run one at a time, in the order their events arrive.           *)
(***************************************************************************)
\* a websocket.connect event arrives; scope["user"] is who the handshake
\* was authenticated as
Handshake(c, identity) ==
    /\ conn[c].state = "none"
    /\ conn' = [conn EXCEPT ![c] = [state |-> "Connecting", user |-> identity]]
    /\ UNCHANGED <<notifications, nextId, clock, dispatched, markAll, last,
                   follows, likes, comments, like_count, comment_count,
                   prefs, quiet, post_content, groups, frames, inbox, errors, inbound>>

\* a connect that accepts whoever asks and joins no group
ConnectAnyone(c) ==
    /\ conn[c].state = "Connecting"
    /\ conn' = [conn EXCEPT ![c].state = "Open"]
    /\ frames' = [frames EXCEPT ![c] =
                     Append(@, [type |-> "connection_established",
                                message |-> "Connected to notifications",
                                user_id |-> conn[c].user])]
    /\ UNCHANGED <<notifications, nextId, clock, dispatched, markAll, last,
                   follows, likes, comments, like_count, comment_count,
                   prefs, quiet, post_content, groups, inbox, errors, inbound>>

\* a connect that joins the group of every user
ConnectShared(c) ==
    /\ conn[c].state = "Connecting"
    /\ IF conn[c].user = Anonymous
       THEN /\ conn' = [conn EXCEPT ![c].state = "Closed"]
            /\ UNCHANGED groups
       ELSE /\ c \notin groups[conn[c].user]
            /\ groups' = [u \in Users |-> groups[u] \cup {c}]
            /\ UNCHANGED conn
    /\ UNCHANGED <<notifications, nextId, clock, dispatched, markAll, last,
                   follows, likes, comments, like_count, comment_count,
                   prefs, quiet, post_content, frames, inbox, errors, inbound>>

\* connect up to its first await that other requests can see: close() for
\* AnonymousUser, group_add for a user
Connect(c) ==
    /\ conn[c].state = "Connecting"
    /\ IF conn[c].user = Anonymous
       THEN /\ conn' = [conn EXCEPT ![c].state = "Closed"]
            /\ UNCHANGED groups
       ELSE /\ c \notin groups[conn[c].user]
            /\ groups' = [groups EXCEPT ![conn[c].user] = @ \cup {c}]
            /\ UNCHANGED conn
    /\ UNCHANGED <<notifications, nextId, clock, dispatched, markAll, last,
                   follows, likes, comments, like_count, comment_count,
                   prefs, quiet, post_content, frames, inbox, errors, inbound>>

\* the rest of connect: accept(), then the connection_established frame
Accept(c) ==
    /\ conn[c].state = "Connecting"
    /\ conn[c].user # Anonymous
    /\ c \in groups[conn[c].user]
    /\ conn' = [conn EXCEPT ![c].state = "Open"]
    /\ frames' = [frames EXCEPT ![c] =
                     Append(@, [type |-> "connection_established",
                                message |-> "Connected to notifications",
                                user_id |-> conn[c].user])]
    /\ UNCHANGED <<notifications, nextId, clock, dispatched, markAll, last,
                   follows, likes, comments, like_count, comment_count,
                   prefs, quiet, post_content, groups, inbox, errors, inbound>>

\* notification_message run for a message as soon as it is queued, whether
\* or not connect has finished
NotificationMessageEarly(c) ==
    /\ conn[c].state \in {"Connecting", "Open"}
    /\ inbox[c] # <<>>
    /\ frames' = [frames EXCEPT ![c] =
                     Append(@, [type |-> "notification",
                                notification |-> Head(inbox[c]).notification])]
    /\ inbox' = [inbox EXCEPT ![c] = Tail(@)]
    /\ UNCHANGED <<notifications, nextId, clock, dispatched, markAll, last,
                   follows, likes, comments, like_count, comment_count,
                   prefs, quiet, post_content, conn, groups, errors, inbound>>

\* notification_message: the handler of the oldest group message; connect
\* is a handler of the same consumer, so it has returned by then
NotificationMessage(c) ==
    /\ conn[c].state = "Open"
    /\ inbox[c] # <<>>
    /\ Head(inbox[c]).type = "notification_message"
    /\ frames' = [frames EXCEPT ![c] =
                     Append(@, [type |-> "notification",
                                notification |-> Head(inbox[c]).notification])]
    /\ inbox' = [inbox EXCEPT ![c] = Tail(@)]
    /\ UNCHANGED <<notifications, nextId, clock, dispatched, markAll, last,
                   follows, likes, comments, like_count, comment_count,
                   prefs, quiet, post_content, conn, groups, errors, inbound>>

\* disconnect, run for the websocket.disconnect event of a connection that
\* was open or was refused: group_discard(self.user_group_name, ...), where
\* user_group_name is an attribute only a connect past its AnonymousUser
\* test has set.  The consumer then stops, so the messages still queued for
\* it are never handled.
Disconnect(c) ==
    /\ \/ conn[c].state = "Open"
       \/ conn[c].state = "Closed" /\ conn[c].user = Anonymous /\ errors[c] = <<>>
    /\ IF conn[c].user = Anonymous
       THEN /\ errors' = [errors EXCEPT ![c] = Append(@, "AttributeError")]
            /\ UNCHANGED <<conn, groups, inbox>>
       ELSE /\ conn' = [conn EXCEPT ![c].state = "Closed"]
            /\ groups' = [groups EXCEPT ![conn[c].user] = @ \ {c}]
            /\ inbox' = [inbox EXCEPT ![c] = <<>>]
            /\ UNCHANGED errors
    /\ UNCHANGED <<notifications, nextId, clock, dispatched, markAll, last,
                   follows, likes, comments, like_count, comment_count,
                   prefs, quiet, post_content, frames, inbound>>

(***************************************************************************)
(* NotificationConsumer.receive: json.loads of the frame, .get('type') on  *)
(* what it decodes to, and the replies to ping and get_notifications.      *)
(***************************************************************************)
Digits == {"0", "1", "2", "3", "4", "5", "6", "7", "8", "9"}

\* the position of the first occurrence of pat in text, 0 if there is none
Find(text, pat) ==
    LET at == {i \in 1..(Len(text) - Len(pat) + 1) :
                  SubSeq(text, i, i + Len(pat) - 1) = pat}
    IN IF at = {} THEN 0 ELSE CHOOSE i \in at : \A j \in at : i <= j

\* the Python type of json.loads(text), or JSONDecodeError
JsonKind(text) ==
    IF text = "" THEN "JSONDecodeError"
    ELSE LET first == SubSeq(text, 1, 1)
             final == SubSeq(text, Len(text), Len(text))
         IN IF first = "{"
            THEN IF final = "}" THEN "dict" ELSE "JSONDecodeError"
            ELSE IF first = "["
            THEN IF final = "]" THEN "list" ELSE "JSONDecodeError"
            ELSE IF \A i \in 1..Len(text) : SubSeq(text, i, i) \in Digits
            THEN "int"
            ELSE IF text = "null" THEN "NoneType"
            ELSE "JSONDecodeError"

\* text_data_json.get(key) of a decoded object, as the JSON text of the
\* value; null for None
JsonGet(text, key) ==
    LET pat == "\"" \o key \o "\": "
        at == Find(text, pat)
        from == at + Len(pat)
        ends == {i \in from..Len(text) : SubSeq(text, i, i) \in {",", "}"}}
        to == CHOOSE i \in ends : \A j \in ends : i <= j
    IN IF at = 0 THEN "null" ELSE SubSeq(text, from, to - 1)

\* a count over all the user's notifications, read or not
get_total_count(user) ==
    Cardinality({i \in Ids : notifications[i].recipient = user})

\* Notification.objects.filter(recipient=self.user, is_read=False).count()
get_unread_count(user) == Cardinality(UnreadOf(user))

\* the frames receive sends for text_data; a value that is no dict has no
\* .get, so the handler raises AttributeError before it sends anything
ReceiveReplies(user, text) ==
    IF JsonKind(text) = "JSONDecodeError"
    THEN <<[type |-> "error", message |-> "Invalid JSON format"]>>
    ELSE IF JsonKind(text) # "dict" THEN <<>>
    ELSE IF JsonGet(text, "type") = "\"ping\""
    THEN <<[type |-> "pong", timestamp |-> JsonGet(text, "timestamp")]>>
    ELSE IF JsonGet(text, "type") = "\"get_notifications\""
    THEN <<[type |-> "notifications_count",
            unread_count |-> get_unread_count(user)]>>
    ELSE <<>>

ReceiveRaises(text) == JsonKind(text) \notin {"dict", "JSONDecodeError"}

\* receive for one text frame of the client.  An exception that leaves the
\* handler ends the consumer: the server closes the socket, no handler runs
\* again, disconnect included, so the channel stays in its group.
Receive(c, text) ==
    /\ conn[c].state = "Open"
    /\ inbound[c] < MaxInbound
    /\ inbound' = [inbound EXCEPT ![c] = @ + 1]
    /\ frames' = [frames EXCEPT ![c] = @ \o ReceiveReplies(conn[c].user, text)]
    /\ errors' = IF ReceiveRaises(text)
                 THEN [errors EXCEPT ![c] = Append(@, "AttributeError")]
                 ELSE errors
    /\ conn' = IF ReceiveRaises(text)
               THEN [conn EXCEPT ![c].state = "Closed"]
               ELSE conn
    /\ last' = [Outcome("receive", conn[c].user, NoId,
                        IF ReceiveRaises(text) THEN "raised" ELSE "handled")
                EXCEPT !.params = <<c, text>>]
    /\ UNCHANGED <<notifications, nextId, clock, dispatched, markAll,
                   follows, likes, comments, like_count, comment_count,
                   prefs, quiet, post_content, groups, inbox>>

(***************************************************************************)
(* Spec: the owner's endpoints of notifications/urls.py, one request at a  *)
(* time.                                                                   *)
(***************************************************************************)
Next ==
    \/ \E u \in Clients : NotificationTest(u)
    \/ \E u \in Clients, id \in IdInputs : MarkAsRead(u, id)
    \/ \E u \in Clients : MarkAllAsRead(u)
    \/ \E u \in Clients, id \in IdInputs : Archive(u, id)
    \/ \E u \in Clients, id \in IdInputs : Unarchive(u, id)
    \/ \E u \in Clients, id \in IdInputs : Delete(u, id)
    \/ \E u \in Clients, id \in IdInputs, p \in Patches : DetailUpdate(u, id, p)

Spec == Init /\ [][Next]_vars

(***************************************************************************)
(* SpecList: creation through create_notification and the test endpoint,   *)
(* the two status changes the filters read, and the list endpoint.         *)
(***************************************************************************)
NextList ==
    \/ \E r \in Clients, ok \in BOOLEAN : CreateNotification(r, "bob", "like", ok)
    \/ \E u \in Clients : NotificationTest(u)
    \/ \E u \in Clients, id \in IdInputs : MarkAsRead(u, id)
    \/ \E u \in Clients, id \in IdInputs : Archive(u, id)
    \/ \E u \in Clients, a \in IsReadParams, t \in TypeParams, b \in IsArchivedParams :
          List(u, a, t, b)

SpecList == Init /\ [][NextList]_vars

(***************************************************************************)
(* SpecAdmin: the admin endpoints next to the owner's delete.              *)
(***************************************************************************)
NextAdmin ==
    \/ \E u \in Clients : NotificationTest(u)
    \/ \E u \in Clients, id \in IdInputs : Delete(u, id)
    \/ \E u \in Clients : AdminList(u)
    \/ \E u \in Clients, id \in IdInputs : AdminDelete(u, id)

SpecAdmin == Init /\ [][NextAdmin]_vars

(***************************************************************************)
(* SpecConcurrent: mark-all-read as its two statements, interleaved with   *)
(* other requests.                                                         *)
(***************************************************************************)
NextConcurrent ==
    \/ \E u \in Clients : NotificationTest(u)
    \/ \E u \in Clients, id \in IdInputs : MarkAsRead(u, id)
    \/ \E u \in Clients : MarkAllCount(u)
    \/ \E u \in Clients : MarkAllUpdate(u)

SpecConcurrent == Init /\ [][NextConcurrent]_vars

(***************************************************************************)
(* SpecProducers: the domain writes that originate notifications and the   *)
(* test endpoint.                                                          *)
(***************************************************************************)
NextProducers ==
    \/ \E u \in Actors, t \in Users, f \in FailInputs : FollowUser(u, t, f)
    \/ \E u \in Actors, p \in Posts, f \in FailInputs : PostLike(u, p, f)
    \/ \E u \in Actors, p \in Posts, c \in PlainInputs, f \in FailInputs :
          CommentCreate(u, p, c, f)
    \/ \E u \in Actors : NotificationTest(u)

SpecProducers == Init /\ [][NextProducers]_vars

(***************************************************************************)
(* SpecMentions: comments whose bodies name users, likes and follows,      *)
(* while the channel layer is up.                                          *)
(***************************************************************************)
\* the channel layer is up: no dispatch raises
Delivered(request) == request /\ last'.status # "raised"

NextMentions ==
    \/ \E u \in Clients, p \in Posts, c \in CommentInputs, f \in FailInputs :
          Delivered(CommentCreate(u, p, c, f))
    \/ \E u \in Clients, p \in Posts, f \in FailInputs : Delivered(PostLike(u, p, f))
    \/ \E u \in Clients, t \in Clients, f \in FailInputs :
          Delivered(FollowUser(u, t, f))

SpecMentions == Init /\ [][NextMentions]_vars

(***************************************************************************)
(* SpecGate: the settings of the users who own posts, and the events by    *)
(* other users that notify them, while the channel layer is up.            *)
(***************************************************************************)
Recipients == {AUTHOR[p] : p \in Posts}

\* the window 22:00-06:00, set column by column and switched on and off
GateValues(field) ==
    IF field = "quiet_hours_enabled" THEN BOOLEAN
    ELSE IF field = "quiet_hours_start" THEN {22}
    ELSE {6}

NextGate ==
    \/ \E u \in Recipients, f \in PreferenceFields, v \in BOOLEAN :
          PreferenceUpdate(u, f, v)
    \/ \E u \in Recipients, f \in QuietFields :
          \E v \in GateValues(f) : QuietUpdate(u, f, v)
    \/ \E u \in Clients \ Recipients, t \in Recipients, f \in FailInputs :
          Delivered(FollowUser(u, t, f))
    \/ \E u \in Clients \ Recipients, p \in Posts, f \in FailInputs :
          Delivered(PostLike(u, p, f))
    \/ \E u \in Clients \ Recipients, p \in Posts, f \in FailInputs :
          Delivered(CommentCreate(u, p, Render(<<>>), f))

SpecGate == Init /\ [][NextGate]_vars

(***************************************************************************)
(* SpecContent: posts and comments of every length around the excerpt      *)
(* length, and the events that quote them, while the channel layer is up.  *)
(***************************************************************************)
\* post texts on both sides of the excerpt length and past the validator
PostInputs == {Filler(50), Filler(51), Filler(120), Filler(281)}

NextContent ==
    \/ \E u \in Recipients, p \in Posts, c \in PostInputs : PostUpdate(u, p, c)
    \/ \E u \in Clients, p \in Posts, f \in FailInputs : Delivered(PostLike(u, p, f))
    \/ \E u \in Clients, p \in Posts, c \in LongInputs, f \in FailInputs :
          Delivered(CommentCreate(u, p, c, f))

SpecContent == Init /\ [][NextContent]_vars

(***************************************************************************)
(* SpecSockets: websocket connections next to direct calls of              *)
(* create_notification and the list endpoint. SpecLive adds that a         *)
(* consumer with a queued message and an open connection gets to handle    *)
(* it.                                                                     *)
(***************************************************************************)
Identities == Clients \cup {Anonymous}

\* sender and kind of the notifications made while connections exist: a
\* like by a user, and a system notice with no sender
SocketCreations == {<<"bob", "like">>, <<NoUser, "system">>}

NextSockets ==
    \/ \E c \in Channels, u \in Identities : Handshake(c, u)
    \/ \E c \in Channels : Connect(c)
    \/ \E c \in Channels : Accept(c)
    \/ \E c \in Channels : NotificationMessage(c)
    \/ \E c \in Channels : Disconnect(c)
    \/ \E r \in Clients, sk \in SocketCreations, ok \in BOOLEAN :
          CreateNotification(r, sk[1], sk[2], ok)
    \/ \E u \in Clients : List(u, NoParam, NoParam, NoParam)

SpecSockets == Init /\ [][NextSockets]_vars

(***************************************************************************)
(* SpecLive: the consumers and the dispatches alone.  A consumer handles   *)
(* the messages of its channel one after the other for as long as it       *)
(* runs, so the handler of a queued message is taken eventually.           *)
(***************************************************************************)
NextLive ==
    \/ \E c \in Channels, u \in Identities : Handshake(c, u)
    \/ \E c \in Channels : Connect(c)
    \/ \E c \in Channels : Accept(c)
    \/ \E c \in Channels : NotificationMessage(c)
    \/ \E c \in Channels : Disconnect(c)
    \/ \E r \in Clients, sk \in SocketCreations, ok \in BOOLEAN :
          CreateNotification(r, sk[1], sk[2], ok)

SpecLive ==
    /\ Init
    /\ [][NextLive]_vars
    /\ \A c \in Channels : WF_vars(NotificationMessage(c))

(***************************************************************************)
(* SpecFrames: the consumers with the frames their clients send, next to   *)
(* dispatches and mark-read requests.  SpecOrder adds that a consumer      *)
(* whose connect has joined the group goes on to accept, and handles what  *)
(* is queued for it.                                                       *)
(***************************************************************************)
\* text frames of a client: the two requests, with and without a timestamp,
\* an object of another kind, an object with no kind, text that is no JSON,
\* cut-off JSON, and JSON that is no object
FrameInputs ==
    {"{\"type\": \"ping\", \"timestamp\": 7}", "{\"type\": \"ping\"}",
     "{\"type\": \"get_notifications\"}", "{\"type\": \"subscribe\"}", "{}",
     "hello", "{\"type\": \"ping\"", "5", "[1]", "null"}

\* the one client that connects
Callers == {"c1"}

NextFrames ==
    \/ \E c \in Callers, u \in Clients : Handshake(c, u)
    \/ \E c \in Channels : Connect(c)
    \/ \E c \in Channels : Accept(c)
    \/ \E c \in Channels, t \in FrameInputs : Receive(c, t)
    \/ \E r \in Clients : CreateNotification(r, NoUser, "system", TRUE)
    \/ \E u \in Clients, id \in IdInputs : MarkAsRead(u, id)

SpecFrames == Init /\ [][NextFrames]_vars

\* the requests of a client during and right after its handshake
EarlyInputs == {"{\"type\": \"ping\"}", "{\"type\": \"get_notifications\"}", "hello", "5"}

NextOrder ==
    \/ \E c \in Callers, u \in Identities : Handshake(c, u)
    \/ \E c \in Channels : Connect(c)
    \/ \E c \in Channels : Accept(c)
    \/ \E c \in Channels, t \in EarlyInputs : Receive(c, t)
    \/ \E c \in Channels : NotificationMessage(c)
    \/ \E c \in Channels : Disconnect(c)
    \/ \E r \in Clients : CreateNotification(r, NoUser, "system", TRUE)

SpecOrder ==
    /\ Init
    /\ [][NextOrder]_vars
    /\ \A c \in Channels : WF_vars(Accept(c)) /\ WF_vars(NotificationMessage(c))

(***************************************************************************)
(* SpecFixed: notifications of a like and of the test endpoint, and every  *)
(* request their recipient can make on them; the detail updates also name  *)
(* columns the update serializer does not declare.                         *)
(***************************************************************************)
OwnerPatches ==
    Patches \cup
    {[recipient |-> "bob"],
     [is_read |-> TRUE, sender |-> "alice", notification_type |-> "system"],
     [is_archived |-> TRUE, created_at |-> MaxClock + 1, data |-> <<>>]}

NextFixed ==
    \/ \E u \in Clients \ Recipients, p \in Posts, f \in FailInputs :
          Delivered(PostLike(u, p, f))
    \/ \E u \in Recipients : NotificationTest(u)
    \/ \E u \in Recipients, id \in IdInputs : MarkAsRead(u, id)
    \/ \E u \in Recipients : MarkAllAsRead(u)
    \/ \E u \in Recipients, id \in IdInputs : Archive(u, id)
    \/ \E u \in Recipients, id \in IdInputs : Unarchive(u, id)
    \/ \E u \in Recipients, id \in IdInputs, p \in OwnerPatches :
          DetailUpdate(u, id, p)

SpecFixed == Init /\ [][NextFixed]_vars

(***************************************************************************)
(* SpecInert: a recipient with a connection who sets quiet hours, is sent  *)
(* notifications and changes them through every endpoint.                  *)
(***************************************************************************)
\* detail updates that set one flag back and the other on
StatusPatches == {[is_read |-> FALSE], [is_archived |-> TRUE]}

NextInert ==
    \/ \E c \in Callers, u \in Recipients : Handshake(c, u)
    \/ \E c \in Channels : Connect(c)
    \/ \E c \in Channels : Accept(c)
    \/ \E c \in Channels : NotificationMessage(c)
    \/ \E u \in Recipients, f \in QuietFields :
          \E v \in GateValues(f) : QuietUpdate(u, f, v)
    \/ \E r \in Recipients : CreateNotification(r, "bob", "like", TRUE)
    \/ \E u \in Recipients, id \in IdInputs : MarkAsRead(u, id)
    \/ \E u \in Recipients : MarkAllAsRead(u)
    \/ \E u \in Recipients, id \in IdInputs : Archive(u, id)
    \/ \E u \in Recipients, id \in IdInputs : Unarchive(u, id)
    \/ \E u \in Recipients, id \in IdInputs : Delete(u, id)
    \/ \E u \in Recipients, id \in IdInputs, p \in StatusPatches :
          DetailUpdate(u, id, p)

SpecInert == Init /\ [][NextInert]_vars

(***************************************************************************)
(* SpecLikes: like and unlike requests of every active user, one request   *)
(* at a time, while the channel layer is up.                               *)
(***************************************************************************)
NextLikes ==
    \/ \E u \in Actors, p \in Posts, f \in FailInputs : Delivered(PostLike(u, p, f))
    \/ \E u \in Actors, p \in Posts : PostUnlike(u, p)

SpecLikes == Init /\ [][NextLikes]_vars

(***************************************************************************)
(* SpecCreate: direct calls of Notification.create_notification.           *)
(***************************************************************************)
NextCreate ==
    \E r \in Clients, s \in SenderInputs, k \in KindInputs, ok \in BOOLEAN :
        CreateNotification(r, s, k, ok)

SpecCreate == Init /\ [][NextCreate]_vars

(***************************************************************************)
(* SpecPrefs: preference updates and the delivery check.                   *)
(***************************************************************************)
NextPrefs ==
    \/ \E u \in Clients, f \in PreferenceFields, v \in BOOLEAN : PreferenceUpdate(u, f, v)
    \/ \E u \in Clients, t \in TypeInputs, m \in MethodInputs : ShouldSend(u, t, m)

SpecPrefs == Init /\ [][NextPrefs]_vars

(***************************************************************************)
(* SpecQuiet: quiet-hours updates and the quiet-hours check.               *)
(***************************************************************************)
NextQuiet ==
    \/ \E u \in Clients, f \in QuietFields : \E v \in QuietValues(f) :
          QuietUpdate(u, f, v)
    \/ \E u \in Clients, now \in TimeInputs : IsQuietHours(u, now)

SpecQuiet == Init /\ [][NextQuiet]_vars

(***************************************************************************)
(* Properties.                                                             *)
(***************************************************************************)

\* C1: every notification created, through any of the creation paths (the
\* four event producers and the test endpoint), has had the fan-out
\* dispatcher called for it exactly once.
C1_DispatchedExactlyOnce ==
    \A i \in DOMAIN dispatched : dispatched[i] = 1

\* C2: a dispatch that fails is swallowed: no create call and no domain
\* write (follow, like, comment) that triggered it ends with the exception
\* raised to its caller.
C2_DispatchFailureSwallowed ==
    last.op \in {"create", "follow", "like", "comment"} => last.status # "raised"

\* C3: a create with a kind outside NOTIFICATION_TYPES is rejected and
\* persists nothing: no row of the table ever has such a kind.
C3_InvalidKindRejected ==
    \A i \in Ids : notifications[i].notification_type \in NOTIFICATION_TYPES

\* C4: mark_read is idempotent. A successful mark_read leaves the
\* notification read; on an unread notification it stamps read_at with the
\* time of that call; on a read one it writes nothing. So a second call
\* right after a first leaves the state of the first, with read_at the
\* time the first call stamped.
C4_MarkReadIdempotent ==
    [][(last'.op = "mark_read" /\ last'.status = "HTTP_200_OK") =>
         LET id == last'.id
         IN /\ id \in Ids
            /\ id \in DOMAIN notifications'
            /\ notifications'[id].is_read
            /\ notifications[id].is_read =>
                  /\ notifications' = notifications
                  /\ clock' = clock
                  /\ ~last'.wrote
            /\ ~notifications[id].is_read =>
                  /\ notifications'[id].read_at = clock
                  /\ last'.wrote
            /\ (last.op = "mark_read" /\ last.status = "HTTP_200_OK"
                   /\ last.id = id /\ last.user = last'.user) =>
                  /\ notifications' = notifications
                  /\ ~last'.wrote
                  /\ last.wrote => notifications'[id].read_at = clock - 1
      ]_vars

\* a repeated mark_read that wrote nothing on a notification an earlier
\* mark_read had stamped
C4_Witness ==
    /\ last.op = "mark_read"
    /\ last.status = "HTTP_200_OK"
    /\ ~last.wrote
    /\ notifications[last.id].is_read
    /\ notifications[last.id].read_at # NoTime

\* C5: read_at is write-once: over the recipient's operations, a read_at
\* that is non-null never changes again.
C5_ReadAtWriteOnce ==
    [][\A i \in Ids :
          (i \in DOMAIN notifications' /\ notifications[i].read_at # NoTime)
             => notifications'[i].read_at = notifications[i].read_at]_vars

\* C6: the count mark_all_read reports is the number of notifications its
\* update transitioned from unread to read, also with other requests
\* running between its two statements.
C6_MarkAllCount ==
    last.op = "mark_all_read" => last.count = Len(last.result)

\* C7: mark_read, archive, unarchive and the owner delete answer NotFound
\* exactly when the id does not exist or belongs to another recipient, and
\* then leave the whole table unchanged.
C7_NotFoundLeavesStore ==
    [][last'.op \in {"mark_read", "archive", "unarchive", "delete"} =>
         LET missing == \/ last'.id \notin Ids
                        \/ notifications[last'.id].recipient # last'.user
         IN /\ missing <=> last'.status = "HTTP_404_NOT_FOUND"
            /\ missing => (notifications' = notifications /\ ~last'.wrote)
      ]_vars

\* an owner operation refused for a notification that exists and belongs
\* to another recipient
C7_Witness ==
    /\ last.op \in {"mark_read", "archive", "unarchive", "delete"}
    /\ last.status = "HTTP_404_NOT_FOUND"
    /\ last.id \in Ids
    /\ notifications[last.id].recipient # last.user

\* C8: a non-admin calling an admin-only operation (admin delete, admin
\* list-all) is rejected as unauthorized.
C8_AdminOnly ==
    (last.op \in {"admin_list", "admin_delete"} /\ ROLE[last.user] # "admin")
        => last.status = "HTTP_403_FORBIDDEN"

\* C9, the contents: a list holds exactly the caller's notifications that
\* pass the read / type / archived filters given, each once, newest
\* created first.
C9_ListContents ==
    last.op = "list" =>
        LET r == last.result
            p == last.params
            want == {i \in Ids :
                       /\ notifications[i].recipient = last.user
                       /\ p[1] # NoParam => (notifications[i].is_read <=> p[1] = "true")
                       /\ p[2] # NoParam => notifications[i].notification_type = p[2]
                       /\ p[3] # NoParam =>
                              (notifications[i].is_archived <=> p[3] = "true")}
        IN /\ {r[k] : k \in 1..Len(r)} = want
           /\ Len(r) = Cardinality(want)
           /\ \A k \in 1..(Len(r) - 1) :
                 notifications[r[k]].created_at > notifications[r[k + 1]].created_at

\* C9, the head: an unfiltered list by the recipient right after a create
\* starts with the notification created.
C9_CreateThenList ==
    (/\ last.op \in {"create", "test"}
     /\ last'.op = "list"
     /\ last'.user = notifications[last.id].recipient
     /\ last'.params = <<NoParam, NoParam, NoParam>>)
        => (Len(last'.result) > 0 /\ last'.result[1] = last.id)

\* C9: list after create returns the created notification first; a list
\* returns only the caller's notifications, newest first, restricted by the
\* filters given.
C9_ListNewestFirst ==
    []C9_ListContents /\ [][C9_CreateThenList]_vars

\* an unfiltered list of two notifications headed by the one created last
C9_Witness ==
    /\ last.op = "list"
    /\ last.params = <<NoParam, NoParam, NoParam>>
    /\ Len(last.result) = 2
    /\ last.result[1] = nextId - 1

\* C10: for each of the five kinds and three channels, is_enabled returns
\* the stored flag of that category and channel.
C10_IsEnabledReadsFlag ==
    (/\ last.op = "should_send"
     /\ last.params[1] \in NOTIFICATION_TYPES
     /\ last.params[2] \in {"email", "push", "in_app"}) =>
        LET category == IF last.params[1] = "system" THEN "system"
                        ELSE last.params[1] \o "s"
            flag == last.params[2] \o "_" \o category
        IN (last.status = "True") <=> prefs[last.user][flag]

\* C11: is_quiet_hours is false when quiet hours are disabled or start or
\* end is unset; otherwise, for start <= end it is true exactly for the times
\* in [start, end], and for start > end exactly for the times >= start or
\* <= end: with start 22:00 and end 06:00 it is true at 23:00 and 03:00 and
\* false at 12:00.
C11_QuietHoursWindow ==
    last.op = "is_quiet_hours" =>
        LET row == quiet[last.user]
            start == row.quiet_hours_start
            end == row.quiet_hours_end
            now == last.params[1]
            answer == last.status = "True"
            unset == start = NoTimeOfDay \/ end = NoTimeOfDay
        IN /\ last.status \in {"True", "False"}
           /\ (~row.quiet_hours_enabled \/ unset) => ~answer
           /\ (row.quiet_hours_enabled /\ ~unset /\ start <= end) =>
                  (answer <=> (start <= now /\ now <= end))
           /\ (row.quiet_hours_enabled /\ ~unset /\ start > end) =>
                  (answer <=> (now >= start \/ now <= end))
           /\ (row.quiet_hours_enabled /\ start = 22 /\ end = 6) =>
                  /\ now \in {23, 3} => answer
                  /\ now = 12 => ~answer

C11_Witness ==
    /\ last.op = "is_quiet_hours"
    /\ quiet[last.user] = [quiet_hours_enabled |-> TRUE, quiet_hours_start |-> 22,
                           quiet_hours_end |-> 6]
    /\ last.params = <<3>>
    /\ last.status = "True"

\* C13: self-directed events produce no notification: a like or a comment
\* by the post's author on their own post and a mention of the comment's own
\* author add no row to the store, and no row an event producer adds has its
\* sender as its recipient.
C13_SelfEventsSilent ==
    [][LET new == DOMAIN notifications' \ DOMAIN notifications
       IN /\ (last'.op = "like" /\ last'.wrote
                 /\ last'.user = AUTHOR[last'.params[1]]) => new = {}
          /\ (last'.op = "comment" /\ last'.wrote) =>
                LET u == last'.user
                    p == last'.params[1]
                    m == CHOOSE l \in MentionInputs : Render(l) = last'.params[2]
                    named == {m[k] : k \in DOMAIN m}
                IN /\ u = AUTHOR[p] =>
                         \A i \in new : notifications'[i].notification_type # "comment"
                   /\ \A i \in new : notifications'[i].recipient # u
                   /\ (u = AUTHOR[p] /\ named \subseteq {u}) => new = {}
                   /\ (u # AUTHOR[p] /\ named \subseteq {u}) =>
                         \A i \in new : notifications'[i].notification_type = "comment"
          /\ \A i \in new :
                notifications'[i].notification_type \in
                        {"follow", "like", "comment", "mention"}
                    => notifications'[i].sender # notifications'[i].recipient
      ]_vars

C13_Witness ==
    /\ last.op = "comment"
    /\ last.user = "alice"
    /\ last.params = <<"p1", Render(<<"alice", "alice">>)>>
    /\ last.status = "HTTP_201_CREATED"
    /\ comments["p1"] = 1
    /\ <<"alice", "p1">> \in likes
    /\ Ids = {}

\* C14: a created comment produces exactly one mention notification for each
\* distinct name in its body that resolves to an active user who is neither
\* the comment's author nor the post's author, however often the name occurs,
\* and none for anybody else.
C14_OnePerDistinctMention ==
    [][(last'.op = "comment" /\ last'.status = "HTTP_201_CREATED") =>
          LET new == DOMAIN notifications' \ DOMAIN notifications
              u == last'.user
              p == last'.params[1]
              m == CHOOSE l \in MentionInputs : Render(l) = last'.params[2]
              targets == {n \in Users : /\ \E k \in DOMAIN m : m[k] = n
                                        /\ ACTIVE[n]
                                        /\ n # u
                                        /\ n # AUTHOR[p]}
          IN \A n \in Users :
                Cardinality({i \in new :
                                /\ notifications'[i].notification_type = "mention"
                                /\ notifications'[i].recipient = n})
                    = IF n \in targets THEN 1 ELSE 0
      ]_vars

\* C15: no mention notification goes to the comment's author or to the
\* post's author; a name that matches no user or an inactive user is skipped
\* and the names after it are still served; the post's author named in
\* somebody else's comment on their post gets one notification for it, the
\* comment notification.
C15_MentionSuppression ==
    [][(last'.op = "comment" /\ last'.status = "HTTP_201_CREATED") =>
          LET new == DOMAIN notifications' \ DOMAIN notifications
              u == last'.user
              p == last'.params[1]
              m == CHOOSE l \in MentionInputs : Render(l) = last'.params[2]
              named == {m[k] : k \in DOMAIN m}
              mentioned == {notifications'[i].recipient :
                               i \in {j \in new :
                                   notifications'[j].notification_type = "mention"}}
          IN /\ u \notin mentioned
             /\ AUTHOR[p] \notin mentioned
             /\ mentioned = {n \in named \cap Users : ACTIVE[n]} \ {u, AUTHOR[p]}
             /\ (u # AUTHOR[p] /\ AUTHOR[p] \in named) =>
                   /\ Cardinality({i \in new :
                          notifications'[i].recipient = AUTHOR[p]}) = 1
                   /\ \A i \in new : notifications'[i].recipient = AUTHOR[p] =>
                          notifications'[i].notification_type = "comment"
      ]_vars

C15_Witness ==
    /\ last.op = "comment"
    /\ last.user = "bob"
    /\ last.params = <<"p1", Render(<<"alice", "carol">>)>>
    /\ last.status = "HTTP_201_CREATED"
    /\ Ids = {1, 2}
    /\ notifications[1].recipient = "alice"
    /\ notifications[1].notification_type = "comment"
    /\ notifications[2].recipient = "carol"
    /\ notifications[2].notification_type = "mention"

\* C12: persistence does not depend on the recipient's preferences or quiet
\* hours: whatever the delivery flags and the quiet-hours window are, a
\* follow of somebody else and a like or comment on somebody else's post
\* store exactly one notification of that kind for the recipient.
C12_PersistedWhateverSettings ==
    [][LET new == DOMAIN notifications' \ DOMAIN notifications
           stored(recipient, sender, kind) ==
               /\ Cardinality(new) = 1
               /\ \A i \in new :
                     /\ notifications'[i].recipient = recipient
                     /\ notifications'[i].sender = sender
                     /\ notifications'[i].notification_type = kind
       IN /\ (last'.op = "follow" /\ last'.wrote /\ last'.params[1] # last'.user) =>
                 stored(last'.params[1], last'.user, "follow")
          /\ (last'.op = "like" /\ last'.wrote
                 /\ AUTHOR[last'.params[1]] # last'.user) =>
                 stored(AUTHOR[last'.params[1]], last'.user, "like")
          /\ (last'.op = "comment" /\ last'.wrote
                 /\ AUTHOR[last'.params[1]] # last'.user) =>
                 stored(AUTHOR[last'.params[1]], last'.user, "comment")
      ]_vars

C12_Witness ==
    /\ ~prefs["alice"]["in_app_likes"]
    /\ quiet["alice"] = [quiet_hours_enabled |-> TRUE, quiet_hours_start |-> 22,
                         quiet_hours_end |-> 6]
    /\ last.op = "like"
    /\ last.user = "bob"
    /\ last.wrote
    /\ \E i \in Ids : /\ notifications[i].recipient = "alice"
                      /\ notifications[i].notification_type = "like"

\* C16: every excerpt an event producer stores in a payload (post_content,
\* comment_content) is the source text itself when that has at most 50
\* characters, and its first 50 characters followed by the marker "..." when
\* it is longer.
C16_PayloadExcerpt ==
    [][(last'.op \in {"like", "comment"} /\ last'.wrote) =>
          LET new == DOMAIN notifications' \ DOMAIN notifications
              post == post_content[last'.params[1]]
              stored(x, source) ==
                  /\ Len(source) <= 50 => x = source
                  /\ Len(source) > 50 =>
                        /\ Len(x) = 53
                        /\ SubSeq(x, 1, 50) = SubSeq(source, 1, 50)
                        /\ SubSeq(x, 51, 53) = "..."
          IN \A i \in new :
                LET kind == notifications'[i].notification_type
                    data == notifications'[i].data
                IN /\ kind \in {"like", "comment"} =>
                         stored(data.post_content, post)
                   /\ kind \in {"comment", "mention"} =>
                         stored(data.comment_content, last'.params[2])
      ]_vars

C16_Witness ==
    /\ Len(post_content["p1"]) = 120
    /\ last.op = "comment"
    /\ Len(last.params[2]) = 40
    /\ \E i \in Ids :
          /\ notifications[i].notification_type = "comment"
          /\ Len(notifications[i].data.post_content) = 53
          /\ notifications[i].data.comment_content = last.params[2]

\* C17: the notification a dispatch puts on a channel and the frame the
\* consumer sends carry the notification id, kind, title, body, text, the
\* two status flags and created_at, the sender's name when there is a sender,
\* and nothing else: no payload map, no recipient id, no sender id.
C17_FrameIsMinimalProjection ==
    LET minimal(n) ==
            /\ {"id", "notification_type", "title", "message", "notification_text",
                "is_read", "is_archived", "created_at"} \subseteq DOMAIN n
            /\ DOMAIN n \subseteq
                   {"id", "sender_username", "notification_type", "title", "message",
                    "notification_text", "is_read", "is_archived", "created_at"}
            /\ DOMAIN n \cap {"data", "recipient", "sender"} = {}
    IN \A c \in Channels :
          /\ \A k \in DOMAIN inbox[c] : minimal(inbox[c][k].notification)
          /\ \A k \in DOMAIN frames[c] :
                frames[c][k].type = "notification" =>
                    minimal(frames[c][k].notification)

C17_Witness ==
    \E c \in Channels : \E k \in DOMAIN frames[c] :
        /\ frames[c][k].type = "notification"
        /\ frames[c][k].notification.id \in Ids
        /\ frames[c][k].notification.sender_username = "bob"
        /\ notifications[frames[c][k].notification.id].recipient = conn[c].user

\* C18: a dispatch that returns puts the notification once on the channel
\* of every open connection of the recipient; no connection ever holds or
\* has been sent the same notification twice; frames sent stay sent; and a
\* notification queued for an open connection is sent on it unless the
\* connection closes.
C18_EveryOpenConnectionOnce ==
    /\ [][/\ (nextId' = nextId + 1 /\ last'.op = "create"
                 /\ last'.status = "returned") =>
                \A c \in Channels :
                    (conn[c].state = "Open" /\ conn[c].user = last'.user) =>
                        /\ Len(inbox'[c]) = Len(inbox[c]) + 1
                        /\ inbox'[c][Len(inbox'[c])].notification.id = nextId
          /\ \A c \in Channels :
                /\ Len(frames[c]) <= Len(frames'[c])
                /\ SubSeq(frames'[c], 1, Len(frames[c])) = frames[c]
        ]_vars
    /\ [](\A c \in Channels, i \in IdInputs :
             Cardinality({k \in DOMAIN inbox[c] : inbox[c][k].notification.id = i})
               + Cardinality({k \in DOMAIN frames[c] :
                                 /\ frames[c][k].type = "notification"
                                 /\ frames[c][k].notification.id = i}) <= 1)
    /\ \A c \in Channels, i \in IdInputs :
          (/\ conn[c].state = "Open"
           /\ \E k \in DOMAIN inbox[c] : inbox[c][k].notification.id = i)
              ~> (\/ conn[c].state = "Closed"
                  \/ \E k \in DOMAIN frames[c] :
                        /\ frames[c][k].type = "notification"
                        /\ frames[c][k].notification.id = i)

C18_Witness ==
    /\ \A c \in Channels :
          /\ conn[c] = [state |-> "Open", user |-> "alice"]
          /\ Len(frames[c]) = 2
          /\ frames[c][2].type = "notification"
          /\ frames[c][2].notification.id = 1
    /\ notifications[1].recipient = "alice"

\* C19: when no channel is registered for the recipient and the channel
\* layer is up, create_notification returns without error, no message is
\* queued and no frame is sent on any connection, and the notification is in
\* the recipient's list from then on.
C19_NoConnectionNoOp ==
    /\ [][/\ (/\ nextId' = nextId + 1
              /\ last'.op = "create"
              /\ last'.params[1]
              /\ groups[last'.user] = {}
              /\ ~(notifications'[nextId].sender = NoUser
                     /\ notifications'[nextId].notification_type # "system")) =>
                /\ last'.status = "returned"
                /\ inbox' = inbox
                /\ frames' = frames
                /\ notifications'[nextId].recipient = last'.user
          /\ DOMAIN notifications \subseteq DOMAIN notifications'
        ]_vars
    /\ [](last.op = "list" =>
             \A i \in Ids : notifications[i].recipient = last.user =>
                 \E k \in DOMAIN last.result : last.result[k] = i)

C19_Witness ==
    /\ conn["c1"] = [state |-> "Open", user |-> "bob"]
    /\ Len(frames["c1"]) = 1
    /\ groups["alice"] = {}
    /\ Ids = {1}
    /\ notifications[1].recipient = "alice"
    /\ dispatched[1] = 1
    /\ last.op = "list"
    /\ last.user = "alice"
    /\ last.result = <<1>>

\* C20: a connection whose handshake is anonymous never is Open: its only
\* step from Connecting is to Closed, it is in no group, nothing is queued
\* for it and no frame is ever sent on it.
C20_AnonymousRefused ==
    /\ [](\A c \in Channels :
             conn[c].user = Anonymous =>
                 /\ conn[c].state \in {"Connecting", "Closed"}
                 /\ \A u \in Users : c \notin groups[u]
                 /\ inbox[c] = <<>>
                 /\ frames[c] = <<>>)
    /\ [][\A c \in Channels :
             (conn[c].user = Anonymous /\ conn[c].state = "Connecting"
                 /\ conn'[c] # conn[c]) =>
                 conn'[c] = [state |-> "Closed", user |-> Anonymous]
        ]_vars

C20_Witness ==
    /\ conn["c1"] = [state |-> "Closed", user |-> Anonymous]
    /\ conn["c2"].state = "Open"
    /\ Len(frames["c2"]) = 2
    /\ frames["c1"] = <<>>

\* C21: a connection of a user has been sent no frame while it is
\* Connecting and exactly one connection_established frame once it is
\* accepted; that frame carries the user and is the first frame, also when
\* a notification was queued for the connection between its group_add and
\* its accept; frames sent stay in their order; and a connection that has
\* joined its group is sent the connection_established frame.
C21_EstablishedFirst ==
    /\ [](\A c \in Channels :
             conn[c].user \in Users =>
                 /\ conn[c].state = "Connecting" => frames[c] = <<>>
                 /\ conn[c].state \in {"Open", "Closed"} =>
                       /\ frames[c] # <<>>
                       /\ frames[c][1] = [type |-> "connection_established",
                                          message |-> "Connected to notifications",
                                          user_id |-> conn[c].user]
                       /\ \A k \in DOMAIN frames[c] :
                             frames[c][k].type = "connection_established" => k = 1)
    /\ [][\A c \in Channels :
             SubSeq(frames'[c], 1, Len(frames[c])) = frames[c]]_vars
    /\ \A c \in Channels :
          (/\ conn[c].state = "Connecting"
           /\ conn[c].user \in Users
           /\ c \in groups[conn[c].user])
              ~> (/\ frames[c] # <<>>
                  /\ frames[c][1].type = "connection_established")

C21_Witness ==
    \E c \in Channels :
        /\ conn[c] = [state |-> "Connecting", user |-> "alice"]
        /\ c \in groups["alice"]
        /\ Len(inbox[c]) = 1
        /\ inbox[c][1].notification.id = 1
        /\ frames[c] = <<>>

\* C22: no disconnect raises (a step that receives no frame adds no
\* exception to any consumer); a Closed connection is in no group; and on a
\* Closed connection no frame is sent and nothing is queued any more.
C22_DisconnectCompletes ==
    /\ [][\A c \in Channels :
             inbound'[c] = inbound[c] => errors'[c] = errors[c]]_vars
    /\ [](\A c \in Channels :
             conn[c].state = "Closed" => \A u \in Users : c \notin groups[u])
    /\ [][\A c \in Channels :
             conn[c].state = "Closed" =>
                 /\ conn'[c] = conn[c]
                 /\ frames'[c] = frames[c]
                 /\ inbox'[c] = inbox[c]]_vars

\* C23: a frame received on an Open connection that is no JSON, or is JSON
\* but no object, is answered with one error frame and leaves the
\* connection Open; a JSON object of a kind other than ping and
\* get_notifications is answered with nothing and changes nothing.
C23_MalformedAnswered ==
    [][\A c \in Channels :
          inbound'[c] = inbound[c] + 1 =>
              LET text == last'.params[2]
                  object == SubSeq(text, 1, 1) = "{"
                                /\ SubSeq(text, Len(text), Len(text)) = "}"
              IN /\ ~object =>
                       /\ frames'[c] = Append(frames[c],
                              [type |-> "error", message |-> "Invalid JSON format"])
                       /\ conn'[c].state = "Open"
                       /\ errors' = errors
                 /\ text \in {"{\"type\": \"subscribe\"}", "{}"} =>
                       /\ frames' = frames
                       /\ conn' = conn
                       /\ errors' = errors
                       /\ notifications' = notifications
      ]_vars

\* C24: on an Open connection a ping is answered with one pong carrying
\* the timestamp of the ping, null if it had none, and a get_notifications
\* with one notifications_count whose unread_count is the number of unread
\* notifications of the connection's user; neither changes the store or
\* the connection.
C24_PingAndCount ==
    [][\A c \in Channels :
          inbound'[c] = inbound[c] + 1 =>
              LET text == last'.params[2]
                  unread == {i \in Ids : /\ notifications[i].recipient = conn[c].user
                                         /\ ~notifications[i].is_read}
              IN /\ text = "{\"type\": \"ping\", \"timestamp\": 7}" =>
                       frames'[c] = Append(frames[c],
                                           [type |-> "pong", timestamp |-> "7"])
                 /\ text = "{\"type\": \"ping\"}" =>
                       frames'[c] = Append(frames[c],
                                           [type |-> "pong", timestamp |-> "null"])
                 /\ text = "{\"type\": \"get_notifications\"}" =>
                       frames'[c] = Append(frames[c],
                                           [type |-> "notifications_count",
                                            unread_count |-> Cardinality(unread)])
                 /\ text \in {"{\"type\": \"ping\", \"timestamp\": 7}",
                              "{\"type\": \"ping\"}",
                              "{\"type\": \"get_notifications\"}"} =>
                       /\ notifications' = notifications
                       /\ nextId' = nextId
                       /\ clock' = clock
                       /\ conn' = conn
                       /\ errors' = errors
      ]_vars

C24_Witness ==
    /\ conn["c1"] = [state |-> "Open", user |-> "alice"]
    /\ Len(frames["c1"]) = 3
    /\ frames["c1"][2] = [type |-> "pong", timestamp |-> "7"]
    /\ frames["c1"][3] = [type |-> "notifications_count", unread_count |-> 1]
    /\ \E i, j \in Ids :
          /\ notifications[i].recipient = "alice" /\ notifications[i].is_read
          /\ notifications[j].recipient = "alice" /\ ~notifications[j].is_read
    /\ last.op = "receive"

\* C25: no request changes the recipient, sender, kind, payload or
\* created_at of a notification that exists before and after it: not
\* mark_read, mark_all_read, archive, unarchive, nor a detail update,
\* whichever columns the update names.
C25_FixedAtCreation ==
    [][\A i \in Ids :
          i \in DOMAIN notifications' =>
              /\ notifications'[i].recipient = notifications[i].recipient
              /\ notifications'[i].sender = notifications[i].sender
              /\ notifications'[i].notification_type = notifications[i].notification_type
              /\ notifications'[i].data = notifications[i].data
              /\ notifications'[i].created_at = notifications[i].created_at
      ]_vars

C25_Witness ==
    /\ last.op = "update"
    /\ last.status = "HTTP_200_OK"
    /\ last.params = <<[recipient |-> "bob"]>>
    /\ last.user = "alice"
    /\ notifications[last.id].recipient = "alice"
    /\ notifications[last.id].sender = "bob"
    /\ notifications[last.id].notification_type = "like"
    /\ notifications[last.id].data.post_id = "p1"
    /\ notifications[last.id].is_read
    /\ notifications[last.id].is_archived

\* C26: archive and unarchive leave is_read and read_at of every
\* notification as they were, and mark_read and mark_all_read leave
\* is_archived of every notification as it was; a notification can be read
\* and archived at once, and unread and archived.
C26_ReadArchivedIndependent ==
    [][\A i \in Ids :
          i \in DOMAIN notifications' =>
              /\ last'.op \in {"archive", "unarchive"} =>
                    /\ notifications'[i].is_read = notifications[i].is_read
                    /\ notifications'[i].read_at = notifications[i].read_at
              /\ last'.op \in {"mark_read", "mark_all_read"} =>
                    notifications'[i].is_archived = notifications[i].is_archived
      ]_vars

C26_Witness ==
    /\ last.op = "archive"
    /\ last.status = "HTTP_200_OK"
    /\ \E i, j \in Ids :
          /\ notifications[i].is_read /\ notifications[i].is_archived
          /\ notifications[i].read_at # NoTime
          /\ ~notifications[j].is_read /\ notifications[j].is_archived
          /\ notifications[i].recipient = notifications[j].recipient

\* C27: no message and no frame of kind notification_update ever exists; a
\* step that changes or deletes notifications without creating one queues
\* nothing and sends nothing; and every creation queues the notification
\* for each channel of the recipient's group, whatever the recipient's
\* quiet hours are.
C27_InertMechanisms ==
    /\ [](\A c \in Channels :
             /\ \A k \in DOMAIN inbox[c] : inbox[c][k].type # "notification_update"
             /\ \A k \in DOMAIN frames[c] : frames[c][k].type # "notification_update")
    /\ [][/\ (notifications' # notifications /\ nextId' = nextId) =>
                 (inbox' = inbox /\ frames' = frames)
          /\ nextId' = nextId + 1 =>
                 \A c \in groups[notifications'[nextId].recipient] :
                     /\ Len(inbox'[c]) = Len(inbox[c]) + 1
                     /\ inbox'[c][Len(inbox'[c])].type = "notification_message"
                     /\ inbox'[c][Len(inbox'[c])].notification.id = nextId
        ]_vars

C27_Witness ==
    /\ last.op = "create"
    /\ last.user = "alice"
    /\ quiet["alice"] = [quiet_hours_enabled |-> TRUE, quiet_hours_start |-> 22,
                         quiet_hours_end |-> 6]
    /\ \A now \in {22, 23, 0, 3, 6} : is_quiet_hours(quiet["alice"], now)
    /\ conn["c1"] = [state |-> "Open", user |-> "alice"]
    /\ Len(inbox["c1"]) = 1
    /\ inbox["c1"][1].notification.id = last.id

\* C28: a channel is only ever in the group of the user its connection was
\* authenticated as, and every notification queued for a connection or sent
\* on it has that connection's user as its recipient.
C28_DeliveryIsolation ==
    \A c \in Channels :
        /\ \A u \in Users : c \in groups[u] => conn[c].user = u
        /\ \A k \in DOMAIN inbox[c] :
              notifications[inbox[c][k].notification.id].recipient = conn[c].user
        /\ \A k \in DOMAIN frames[c] :
              frames[c][k].type = "notification" =>
                  notifications[frames[c][k].notification.id].recipient = conn[c].user

C28_Witness ==
    /\ conn["c1"] = [state |-> "Open", user |-> "alice"]
    /\ conn["c2"] = [state |-> "Open", user |-> "bob"]
    /\ Len(frames["c1"]) = 2
    /\ Len(frames["c2"]) = 2
    /\ frames["c1"][2].type = "notification"
    /\ frames["c2"][2].type = "notification"
    /\ notifications[frames["c1"][2].notification.id].recipient = "alice"
    /\ notifications[frames["c2"][2].notification.id].recipient = "bob"
    /\ inbox = [c \in Channels |-> <<>>]

\* C29: every notification in the store has is_read true exactly when its
\* read_at is set.
C29_ReadFlagAgreesWithReadAt ==
    \A i \in Ids : notifications[i].is_read <=> notifications[i].read_at # NoTime

\* C30: a post holds at most one like per user, and its like_count is the
\* number of likes that exist for it.
C30_LikeCountAgrees ==
    \A p \in Posts :
        /\ \A u \in Users : Cardinality({l \in likes : l = <<u, p>>}) <= 1
        /\ like_count[p] = Cardinality(LikesOf(likes, p))

====
